---- MODULE Spec2Model ----
(***************************************************************************)
(* Model of the native-trees map application: the species normaliser, the  *)
(* habitat enrichment and county loader (utils.ts), the offline county     *)
(* partitioner (split script) and the county loading logic of              *)
(* useControlPanelLogic.                                                   *)
(*                                                                         *)
(* JavaScript strings are modelled as sequences of one-character strings,  *)
(* so that trim, split, includes and the regular-expression replacements   *)
(* are computed character by character as the code computes them.          *)
(***************************************************************************)
EXTENDS Integers, Sequences, FiniteSets, TLC

VARIABLES
  \* cleanTreeSpecies applied to a list of raw strings
  cPc, cRaw, cOut,
  \* the offline partitioner (main of the split script) and its file system
  pPc, pData, pRun, pDirs, pShards, pIndex, pExit, pLogged, pByCounty, pGenera, pTodo, pFiles, pFirst,
  \* one call of loadHabitatsForCounty
  lPc, lCounty, lIndex, lUrl, lFetches, lResponse, lBody, lResult,
  \* useControlPanelLogic: county selection and overlapping shard loads
  habitatIndex, isLoadingIndex, countiesGeoJSON, zoomedIn, selectedCounty,
  habitats, isLoadingCounty, inflight, dispatched, lastSettled,
  availableSpecies, selectedSpecies, speciesDropdownOpen, closedByEffect,
  \* the style resolver: genus, colour and darker shade of one species label
  sPc, sSpecies, sShadeOf, sGenus, sColor, sShade,
  \* useFlashPolygons: the GeoJSON ref, its layers' styles, one flash run and its timer
  geoJsonRef, layerStyle, originals, flashI, flashPc, isFlashing, now, flashStart,
  flashDue, flashLog, flashCalls,
  \* useContextMenu: the menu position and the click listeners of the document
  menuPosition, mounted, clickListeners

cleanVars == <<cPc, cRaw, cOut>>
partVars == <<pPc, pData, pRun, pDirs, pShards, pIndex, pExit, pLogged, pByCounty, pGenera, pTodo, pFiles, pFirst>>
loadVars == <<lPc, lCounty, lIndex, lUrl, lFetches, lResponse, lBody, lResult>>
panelVars == <<habitatIndex, isLoadingIndex, countiesGeoJSON, zoomedIn, selectedCounty,
               habitats, isLoadingCounty, inflight, dispatched, lastSettled,
               availableSpecies, selectedSpecies, speciesDropdownOpen, closedByEffect>>
styleVars == <<sPc, sSpecies, sShadeOf, sGenus, sColor, sShade>>
flashVars == <<geoJsonRef, layerStyle, originals, flashI, flashPc, isFlashing, now, flashStart,
               flashDue, flashLog, flashCalls>>
menuVars == <<menuPosition, mounted, clickListeners>>
vars == <<cleanVars, partVars, loadVars, panelVars, styleVars, flashVars, menuVars>>

\* each component leaves the state of the others alone
CleanOnly == UNCHANGED <<partVars, loadVars, panelVars, styleVars, flashVars, menuVars>>
PartOnly == UNCHANGED <<cleanVars, loadVars, panelVars, styleVars, flashVars, menuVars>>
LoadOnly == UNCHANGED <<cleanVars, partVars, panelVars, styleVars, flashVars, menuVars>>
PanelOnly == UNCHANGED <<cleanVars, partVars, loadVars, styleVars, flashVars, menuVars>>
FlashOnly == UNCHANGED <<cleanVars, partVars, loadVars, panelVars, styleVars, menuVars>>
MenuOnly == UNCHANGED <<cleanVars, partVars, loadVars, panelVars, styleVars, flashVars>>
StyleOnly == UNCHANGED <<cleanVars, partVars, loadVars, panelVars, flashVars, menuVars>>

-----------------------------------------------------------------------------
(* JavaScript string primitives                                            *)

\* The value JavaScript calls undefined (an absent property, a failed lookup).
Undefined == <<"undefined">>

\* null, and a value that is a (non-zero) number where a string is expected
Null == <<"null">>
NumberValue == <<"number">>

\* an argument that is no array at all (undefined where a list is expected)
NoList == << <<"no list">> >>

\* typeof v === 'string'
IsString(v) == v \notin {Undefined, Null, NumberValue}

LowerLetters == <<"a","b","c","d","e","f","g","h","i","j","k","l","m",
                  "n","o","p","q","r","s","t","u","v","w","x","y","z">>
UpperLetters == <<"A","B","C","D","E","F","G","H","I","J","K","L","M",
                  "N","O","P","Q","R","S","T","U","V","W","X","Y","Z">>
Digits == {"0","1","2","3","4","5","6","7","8","9"}

Range(s) == {s[i] : i \in DOMAIN s}

\* \s of a regular expression, and the characters String.prototype.trim strips
IsSpace(ch) == ch \in {" ", "\t"}

\* \w of a regular expression: [A-Za-z0-9_]
IsWordChar(ch) == ch \in Range(LowerLetters) \cup Range(UpperLetters) \cup Digits \cup {"_"}

RECURSIVE TrimStart(_)
TrimStart(s) == IF s # <<>> /\ IsSpace(Head(s)) THEN TrimStart(Tail(s)) ELSE s

RECURSIVE TrimEnd(_)
TrimEnd(s) ==
  IF s # <<>> /\ IsSpace(s[Len(s)]) THEN TrimEnd(SubSeq(s, 1, Len(s) - 1)) ELSE s

\* String.prototype.trim
Trim(s) == TrimEnd(TrimStart(s))

\* String.prototype.includes
Includes(s, t) ==
  \E i \in 1..(Len(s) - Len(t) + 1) : SubSeq(s, i, i + Len(t) - 1) = t

\* String.prototype.toLowerCase / toUpperCase on one character
LowerChar(ch) ==
  IF \E i \in DOMAIN UpperLetters : UpperLetters[i] = ch
  THEN LowerLetters[CHOOSE i \in DOMAIN UpperLetters : UpperLetters[i] = ch]
  ELSE ch

UpperChar(ch) ==
  IF \E i \in DOMAIN LowerLetters : LowerLetters[i] = ch
  THEN UpperLetters[CHOOSE i \in DOMAIN LowerLetters : LowerLetters[i] = ch]
  ELSE ch

ToLowerCase(s) == [i \in DOMAIN s |-> LowerChar(s[i])]

\* Array.prototype.filter(Boolean) on a sequence of strings: drops the empty ones
RECURSIVE FilterBoolean(_)
FilterBoolean(ss) ==
  IF ss = <<>> THEN <<>>
  ELSE (IF Head(ss) # <<>> THEN <<Head(ss)>> ELSE <<>>) \o FilterBoolean(Tail(ss))

\* Array.prototype.flat on a sequence of sequences
RECURSIVE Flatten(_)
Flatten(ss) == IF ss = <<>> THEN <<>> ELSE Head(ss) \o Flatten(Tail(ss))

\* The string literals of the sources, character by character
StrNotDetermined == <<"N","o","t"," ","D","e","t","e","r","m","i","n","e","d">>
StrUnknown == <<"U","n","k","n","o","w","n">>
StrQRobur == <<"Q","."," ","r","o","b","u","r">>
StrQuercusRobur == <<"Q","u","e","r","c","u","s"," ","r","o","b","u","r">>
StrFExcelsior == <<"F","."," ","e","x","c","e","l","s","i","o","r">>
StrFraxinusExcelsior == <<"F","r","a","x","i","n","u","s"," ","e","x","c","e","l","s","i","o","r">>
StrQuercus == <<"Q","u","e","r","c","u","s">>
StrFraxinus == <<"F","r","a","x","i","n","u","s">>

-----------------------------------------------------------------------------
(* Species normaliser                                                      *)

\* speciesMap of constants.ts in insertion order, as <<key, value>> pairs
speciesMap == << <<StrQRobur, StrQuercusRobur>>, <<StrFExcelsior, StrFraxinusExcelsior>> >>

\* speciesMap[k]: the value of the first entry with key k, or Undefined
speciesMapGet(k) ==
  IF \E i \in DOMAIN speciesMap : speciesMap[i][1] = k
  THEN speciesMap[CHOOSE i \in DOMAIN speciesMap : speciesMap[i][1] = k][2]
  ELSE Undefined

\* JavaScript truthiness of a string, a non-zero number, null or undefined
Truthy(v) == v \notin {Undefined, Null, <<>>}

\* trimmed.split(/\s*[-/]\s*/): the pieces between '-' and '/' characters; the
\* white space around a separator belongs to the separator
RECURSIVE SplitAt(_, _)
SplitAt(s, cur) ==
  IF s = <<>> THEN <<cur>>
  ELSE IF Head(s) \in {"-", "/"} THEN <<TrimEnd(cur)>> \o SplitAt(TrimStart(Tail(s)), <<>>)
  ELSE SplitAt(Tail(s), Append(cur, Head(s)))

SplitCompound(s) == SplitAt(s, <<>>)

\* for (const part of parts) if (speciesMap[part.trim()]) return [speciesMap[...]]
RECURSIVE FirstMappedPartMutantLast(_)
FirstMappedPartMutantLast(parts) ==
  IF parts = <<>> THEN Undefined
  ELSE IF Truthy(FirstMappedPartMutantLast(Tail(parts))) THEN FirstMappedPartMutantLast(Tail(parts))
  ELSE speciesMapGet(Trim(Head(parts)))
RECURSIVE FirstMappedPart(_)
FirstMappedPart(parts) ==
  IF parts = <<>> THEN Undefined
  ELSE IF Truthy(speciesMapGet(Trim(Head(parts)))) THEN speciesMapGet(Trim(Head(parts)))
  ELSE FirstMappedPart(Tail(parts))

\* for (const [key, value] of Object.entries(speciesMap)): keys longer than 2
\* characters that are a substring of trimmed, first in insertion order
RECURSIVE FirstSubstringKeyMutantLast(_, _)
FirstSubstringKeyMutantLast(trimmed, entries) ==
  IF entries = <<>> THEN Undefined
  ELSE IF Truthy(FirstSubstringKeyMutantLast(trimmed, Tail(entries)))
       THEN FirstSubstringKeyMutantLast(trimmed, Tail(entries))
  ELSE IF Len(Head(entries)[1]) > 2 /\ Includes(trimmed, Head(entries)[1]) THEN Head(entries)[2]
  ELSE Undefined
RECURSIVE FirstSubstringKey(_, _)
FirstSubstringKey(trimmed, entries) ==
  IF entries = <<>> THEN Undefined
  ELSE IF Len(Head(entries)[1]) > 2 /\ Includes(trimmed, Head(entries)[1]) THEN Head(entries)[2]
  ELSE FirstSubstringKey(trimmed, Tail(entries))

\* the callback of flatMap: the labels one kept entry contributes
CleanOneMutantPassthrough(s) == <<Trim(s)>>
CleanOne(s) ==
  LET trimmed == Trim(s)
      parts == FilterBoolean(SplitCompound(trimmed))
  IN  IF Truthy(speciesMapGet(trimmed)) THEN <<speciesMapGet(trimmed)>>
      ELSE IF Truthy(FirstMappedPart(parts)) THEN <<FirstMappedPart(parts)>>
      ELSE IF Truthy(FirstSubstringKey(trimmed, speciesMap))
           THEN <<FirstSubstringKey(trimmed, speciesMap)>>
      ELSE <<trimmed>>

\* the first filter: (s) => s && !s.includes('Not Determined')
KeepMutantEqual(s) == s # <<>> /\ s # StrNotDetermined
KeepRaw(s) == Truthy(s) /\ ~Includes(s, StrNotDetermined)

\* s.includes is not a function: the filter callback throws a TypeError on a
\* truthy entry that is not a string
EntryThrows(s) == Truthy(s) /\ ~IsString(s)

cleanTreeSpeciesThrows(raw) == raw # NoList /\ \E i \in DOMAIN raw : EntryThrows(raw[i])

\* cleanTreeSpecies(raw): [] when raw is absent, else filter, flatMap, filter
cleanTreeSpecies(raw) ==
  IF raw = NoList THEN <<>>
  ELSE FilterBoolean(Flatten([i \in DOMAIN raw |->
                                IF KeepRaw(raw[i]) THEN CleanOne(raw[i]) ELSE <<>>]))

-----------------------------------------------------------------------------
(* cleanTreeSpecies applied to bounded lists of raw strings                *)

MaxList == 3

StrSalix == <<"S","a","l","i","x">>

\* raw entries: empty, white space only, the marker alone and inside a longer
\* description, exact keys, padded keys, compounds (with one and with two mapped
\* parts, with a spaced and with a bare hyphen), substrings, unknown names
RawSamples ==
  { <<>>,
    <<" "," ">>,
    StrNotDetermined,
    StrNotDetermined \o <<" ","/"," ">> \o StrQRobur,
    StrQRobur,
    StrFExcelsior,
    <<" ">> \o StrFExcelsior \o <<" ">>,
    StrSalix \o <<" ","-"," ">> \o StrFExcelsior,
    StrQRobur \o <<" ","w","o","o","d">>,
    StrFExcelsior \o <<" ","/"," ">> \o StrQRobur,
    StrFExcelsior \o <<"-">> \o StrQRobur \o <<" ","w","o","o","d">>,
    StrFExcelsior \o <<" ">> \o StrQRobur,
    StrSalix }

RECURSIVE SeqsUpTo(_, _)
SeqsUpTo(S, n) ==
  IF n = 0 THEN {<<>>}
  ELSE LET shorter == SeqsUpTo(S, n - 1)
       IN  shorter \cup {Append(q, x) : q \in {r \in shorter : Len(r) = n - 1}, x \in S}

IdleClean == cPc = "idle" /\ cRaw = <<>> /\ cOut = <<>>

InitCleanCall == cPc = "call" /\ cRaw \in SeqsUpTo(RawSamples, MaxList) /\ cOut = <<>>

\* what the pipeline can hand over besides strings: nothing at all, null, a
\* number where the data holds one (JSON gives no guarantee of a string)
GarbageSamples == {Undefined, Null, NumberValue}

\* lists mixing strings with such entries, and an absent list
MixedLists ==
  {NoList} \cup SeqsUpTo({<<>>, StrNotDetermined, StrQRobur, StrSalix} \cup GarbageSamples, MaxList)

InitMixedCall == cPc = "call" /\ cRaw \in MixedLists /\ cOut = <<>>

\* const out = cleanTreeSpecies(raw), or the TypeError it throws
CleanCall ==
  /\ cPc = "call"
  /\ IF cleanTreeSpeciesThrows(cRaw)
     THEN cPc' = "thrown" /\ UNCHANGED cOut
     ELSE cPc' = "done" /\ cOut' = cleanTreeSpecies(cRaw)
  /\ UNCHANGED cRaw
  /\ CleanOnly

-----------------------------------------------------------------------------
(* Genus classifier                                                        *)

\* treeColors of constants.ts in declared order, as <<genus, colour>> pairs
treeColors == << <<StrQuercus, "#quercus">>, <<StrFraxinus, "#fraxinus">> >>

\* for (const genus of Object.keys(treeColors)) if (speciesName.includes(genus))
RECURSIVE FirstGenusInMutantLast(_, _)
FirstGenusInMutantLast(speciesName, entries) ==
  IF entries = <<>> THEN Null
  ELSE IF FirstGenusInMutantLast(speciesName, Tail(entries)) # Null
       THEN FirstGenusInMutantLast(speciesName, Tail(entries))
  ELSE IF Includes(speciesName, Head(entries)[1]) THEN Head(entries)[1]
  ELSE Null
RECURSIVE FirstGenusIn(_, _)
FirstGenusIn(speciesName, entries) ==
  IF entries = <<>> THEN Null
  ELSE IF Includes(speciesName, Head(entries)[1]) THEN Head(entries)[1]
  ELSE FirstGenusIn(speciesName, Tail(entries))

getGenusFromSpecies(speciesName) ==
  IF speciesName = <<>> \/ speciesName = Undefined \/ speciesName = StrUnknown THEN Null
  ELSE FirstGenusIn(speciesName, treeColors)

\* the neutral grey of getColorForSpecies and the dark grey of getDarkerShade
Grey == "#808080"
DarkGrey == "#333333"

\* for (const [genus, color] of Object.entries(treeColors)) if (speciesName.includes(genus))
RECURSIVE FirstColorInMutantLast(_, _)
FirstColorInMutantLast(speciesName, entries) ==
  IF entries = <<>> THEN Grey
  ELSE IF FirstColorInMutantLast(speciesName, Tail(entries)) # Grey
       THEN FirstColorInMutantLast(speciesName, Tail(entries))
  ELSE IF Includes(speciesName, Head(entries)[1]) THEN Head(entries)[2]
  ELSE Grey
RECURSIVE FirstColorIn(_, _)
FirstColorIn(speciesName, entries) ==
  IF entries = <<>> THEN Grey
  ELSE IF Includes(speciesName, Head(entries)[1]) THEN Head(entries)[2]
  ELSE FirstColorIn(speciesName, Tail(entries))

getColorForSpecies(speciesName) ==
  IF speciesName = <<>> \/ speciesName = Undefined \/ speciesName = StrUnknown THEN Grey
  ELSE FirstColorIn(speciesName, treeColors)

\* darkerShadeColourMap of constants.ts, as <<colour, darker colour>> pairs
darkerShadeColourMap == << <<"#quercus", "#quercus-dark">>, <<"#fraxinus", "#fraxinus-dark">> >>

\* darkerShadeColourMap[color] || '#333333'
getDarkerShadeMutantSelf(color) ==
  IF \E i \in DOMAIN darkerShadeColourMap :
       darkerShadeColourMap[i][1] = color /\ darkerShadeColourMap[i][2] # ""
  THEN darkerShadeColourMap[CHOOSE i \in DOMAIN darkerShadeColourMap :
                              darkerShadeColourMap[i][1] = color][2]
  ELSE color
getDarkerShade(color) ==
  IF \E i \in DOMAIN darkerShadeColourMap :
       darkerShadeColourMap[i][1] = color /\ darkerShadeColourMap[i][2] # ""
  THEN darkerShadeColourMap[CHOOSE i \in DOMAIN darkerShadeColourMap :
                              darkerShadeColourMap[i][1] = color][2]
  ELSE DarkGrey

\* a ?? b
Coalesce(a, b) == IF a = Undefined \/ a = Null THEN b ELSE a

\* feature.properties.NS_SPECIES ?? feature.properties.NSNW_DESC ?? ''
RawSpecies(f) == Coalesce(Coalesce(f.NS_SPECIES, f.NSNW_DESC), <<>>)

\* cleanTreeSpecies([raw])[0] ?? 'Unknown'
CleanedSpeciesMutantNoDefault(f) ==
  LET out == cleanTreeSpecies(<<RawSpecies(f)>>)
  IN  IF out = <<>> THEN <<>> ELSE out[1]
CleanedSpecies(f) ==
  LET out == cleanTreeSpecies(<<RawSpecies(f)>>)
  IN  IF out = <<>> THEN StrUnknown ELSE out[1]

-----------------------------------------------------------------------------
(* The style resolver applied to bounded species labels and colours        *)

MaxWords == 2

StrRobur == <<"r","o","b","u","r">>

\* the words species labels are made of
LabelWords == {StrQuercus, StrFraxinus, StrUnknown, StrRobur, StrSalix}

\* words joined by single spaces
RECURSIVE JoinWords(_)
JoinWords(ws) ==
  IF ws = <<>> THEN <<>>
  ELSE IF Len(ws) = 1 THEN Head(ws)
  ELSE Head(ws) \o <<" ">> \o JoinWords(Tail(ws))

\* species labels: the empty label, "Unknown", labels with no, one and two genera
SpeciesLabels == {JoinWords(ws) : ws \in SeqsUpTo(LabelWords, MaxWords)}

\* colours: the keys of the shade table, the neutral grey, a colour outside the
\* table and the empty string
ColourSamples == {"#quercus", "#fraxinus", Grey, "#does-not-exist", ""}

IdleStyle ==
  /\ sPc = "idle" /\ sSpecies = <<>> /\ sShadeOf = "" /\ sGenus = Null
  /\ sColor = "" /\ sShade = ""

InitStyleCall ==
  /\ sPc = "genus" /\ sSpecies \in SpeciesLabels /\ sShadeOf \in ColourSamples
  /\ sGenus = Null /\ sColor = "" /\ sShade = ""

\* const genus = getGenusFromSpecies(species)
SGenus ==
  /\ sPc = "genus"
  /\ sGenus' = getGenusFromSpecies(sSpecies)
  /\ sPc' = "color"
  /\ UNCHANGED <<sSpecies, sShadeOf, sColor, sShade>>
  /\ StyleOnly

\* const color = getColorForSpecies(species)
SColor ==
  /\ sPc = "color"
  /\ sColor' = getColorForSpecies(sSpecies)
  /\ sPc' = "shade"
  /\ UNCHANGED <<sSpecies, sShadeOf, sGenus, sShade>>
  /\ StyleOnly

\* const shade = getDarkerShade(c)
SShade ==
  /\ sPc = "shade"
  /\ sShade' = getDarkerShade(sShadeOf)
  /\ sPc' = "done"
  /\ UNCHANGED <<sSpecies, sShadeOf, sGenus, sColor>>
  /\ StyleOnly

-----------------------------------------------------------------------------
(* County partitioner: main() of the split script                          *)

StrDublin == <<"D","u","b","l","i","n">>
StrCork == <<"C","o","r","k">>
StrCoDotCork == <<"C","o","."," ">> \o StrCork
StrCoCork == <<"C","o"," ">> \o StrCork
StrJson == <<".","j","s","o","n">>
StrDataHabitats == <<"/","d","a","t","a","/","h","a","b","i","t","a","t","s","/">>
OUT_DIR == "public/data/habitats"

\* a COUNTY property: absent, a string, or an array of strings
CAbsent == [t |-> "absent"]
CStr(v) == [t |-> "str", v |-> v]
CArr(items) == [t |-> "arr", items |-> items]

Feat(county, ns, nsnw) == [COUNTY |-> county, NS_SPECIES |-> ns, NSNW_DESC |-> nsnw]

\* raw features: plain counties, a padded county, two counties whose file names
\* coincide, a missing and a blank county, a county in capitals, and a
\* multi-county site
RawFeatures ==
  { Feat(CStr(StrDublin), StrQRobur, Undefined),
    Feat(CStr(StrDublin), Undefined, StrNotDetermined),
    Feat(CStr(StrCork), StrFExcelsior, Undefined),
    Feat(CStr(<<" ">> \o StrCork \o <<" ">>), StrQRobur, Undefined),
    Feat(CAbsent, Undefined, Undefined),
    Feat(CStr(<<" "," ">>), StrSalix, Undefined),
    Feat(CStr(StrCoDotCork), StrFExcelsior, Undefined),
    Feat(CStr(StrCoCork), StrQRobur, Undefined),
    Feat(CStr(<<"D","U","B","L","I","N">>), StrQRobur, Undefined),
    Feat(CArr(<<StrDublin, StrCork>>), StrQRobur, Undefined) }

MaxFeatures == 3

\* what JSON.parse can hand to main: a non-object, or an object with or without
\* its type and features keys, whose features may not be an array
ParsedInputs ==
  { [kind |-> k, hasType |-> FALSE, hasFeatures |-> FALSE, iterable |-> FALSE, features |-> <<>>]
      : k \in {"null", "number", "string"} }
  \cup { [kind |-> "object", hasType |-> ty, hasFeatures |-> FALSE, iterable |-> FALSE,
          features |-> <<>>] : ty \in BOOLEAN }
  \cup { [kind |-> "object", hasType |-> ty, hasFeatures |-> TRUE, iterable |-> FALSE,
          features |-> <<>>] : ty \in BOOLEAN }
  \cup { [kind |-> "object", hasType |-> ty, hasFeatures |-> TRUE, iterable |-> TRUE,
          features |-> fs] : ty \in BOOLEAN, fs \in SeqsUpTo(RawFeatures, MaxFeatures) }

\* !data || typeof data !== 'object' || !('type' in data) || !('features' in data)
RejectsMutantNoTypeCheck(data) == data.kind # "object" \/ ~data.hasFeatures
RejectsInput(data) == data.kind # "object" \/ ~data.hasType \/ ~data.hasFeatures

\* (props?.COUNTY as string | undefined)?.trim(): calling trim on an array throws
CountyThrows(f) == f.COUNTY.t = "arr"

\* (props?.COUNTY as string | undefined)?.trim() || 'Unknown'
CountyOfMutantNullish(f) ==
  IF f.COUNTY.t = "absent" THEN StrUnknown ELSE Trim(f.COUNTY.v)
CountyOf(f) ==
  IF f.COUNTY.t = "absent" THEN StrUnknown
  ELSE IF Trim(f.COUNTY.v) = <<>> THEN StrUnknown ELSE Trim(f.COUNTY.v)

\* normalizeCountyName: trim, runs of white space to '_', drop all but [\w-]
RECURSIVE SpacesToUnderscore(_)
SpacesToUnderscore(s) ==
  IF s = <<>> THEN <<>>
  ELSE IF IsSpace(Head(s)) THEN <<"_">> \o SpacesToUnderscore(TrimStart(s))
  ELSE <<Head(s)>> \o SpacesToUnderscore(Tail(s))

RECURSIVE KeepWordAndHyphen(_)
KeepWordAndHyphen(s) ==
  IF s = <<>> THEN <<>>
  ELSE (IF IsWordChar(Head(s)) \/ Head(s) = "-" THEN <<Head(s)>> ELSE <<>>)
       \o KeepWordAndHyphen(Tail(s))

normalizeCountyName(name) == KeepWordAndHyphen(SpacesToUnderscore(Trim(name)))

\* a.localeCompare(b) < 0: white space and punctuation before digits before
\* letters, letters compared without case first, lower case before upper case
Collation == <<" ", "\t", "_", "-", ".", "/">>
             \o <<"0","1","2","3","4","5","6","7","8","9">> \o LowerLetters

RankOf(ch) == CHOOSE i \in DOMAIN Collation : Collation[i] = LowerChar(ch)

\* lexicographic order on sequences of numbers
RECURSIVE LexLess(_, _)
LexLess(a, b) ==
  IF b = <<>> THEN FALSE
  ELSE IF a = <<>> THEN TRUE
  ELSE IF Head(a) # Head(b) THEN Head(a) < Head(b)
  ELSE LexLess(Tail(a), Tail(b))

PrimaryKey(s) == [i \in DOMAIN s |-> RankOf(s[i])]
CaseKey(s) == [i \in DOMAIN s |-> IF s[i] \in Range(UpperLetters) THEN 1 ELSE 0]

LocaleLess(a, b) ==
  \/ LexLess(PrimaryKey(a), PrimaryKey(b))
  \/ /\ PrimaryKey(a) = PrimaryKey(b)
     /\ LexLess(CaseKey(a), CaseKey(b))

\* the grouping loop: byCounty in insertion order, as <<county, features>> pairs
RECURSIVE GroupByCounty(_, _)
GroupByCounty(fs, acc) ==
  IF fs = <<>> THEN acc
  ELSE LET f == Head(fs)
           county == CountyOf(f)
       IN  IF \E i \in DOMAIN acc : acc[i][1] = county
           THEN GroupByCounty(Tail(fs),
                  [i \in DOMAIN acc |->
                     IF acc[i][1] = county THEN <<county, Append(acc[i][2], f)>> ELSE acc[i]])
           ELSE GroupByCounty(Tail(fs), Append(acc, <<county, <<f>> >>))

\* the genera set in insertion order: if (genus) genera.add(genus)
RECURSIVE GeneraOf(_, _)
GeneraOf(fs, acc) ==
  IF fs = <<>> THEN acc
  ELSE LET genus == getGenusFromSpecies(CleanedSpecies(Head(fs)))
       IN  GeneraOf(Tail(fs),
                    IF genus = Null \/ genus \in Range(acc) THEN acc ELSE Append(acc, genus))

\* byCounty.get(county) ?? []
ByCountyGet(byCounty, county) ==
  IF \E i \in DOMAIN byCounty : byCounty[i][1] = county
  THEN byCounty[CHOOSE i \in DOMAIN byCounty : byCounty[i][1] = county][2]
  ELSE <<>>

MapKeys(m) == [i \in DOMAIN m |-> m[i][1]]

\* Array.from(byCounty.keys()).sort((a, b) => a.localeCompare(b))
SortedCounties(byCounty) == SortSeq(MapKeys(byCounty), LocaleLess)

\* fs.writeFile(outPath, content): creates the file or replaces its content
FileContent(files, name) ==
  IF \E x \in files : x.name = name THEN (CHOOSE x \in files : x.name = name).features ELSE <<>>

WriteFileMutantAppend(files, name, content) ==
  {x \in files : x.name # name}
    \cup {[name |-> name, features |-> FileContent(files, name) \o content]}
WriteFile(files, name, content) ==
  {x \in files : x.name # name} \cup {[name |-> name, features |-> content]}

\* counties.filter((c) => c !== 'Unknown')
RECURSIVE WithoutUnknown(_)
WithoutUnknown(cs) ==
  IF cs = <<>> THEN <<>>
  ELSE (IF Head(cs) # StrUnknown THEN <<Head(cs)>> ELSE <<>>) \o WithoutUnknown(Tail(cs))

NotExited == -1

IdlePart ==
  /\ pPc = "idle" /\ pData = <<>> /\ pRun = "none" /\ pDirs = {} /\ pShards = {} /\ pIndex = <<>>
  /\ pExit = NotExited /\ pLogged = FALSE /\ pByCounty = <<>> /\ pGenera = <<>>
  /\ pTodo = <<>> /\ pFiles = <<>> /\ pFirst = <<>>

InitPartRun ==
  /\ pPc = "start" /\ pData \in ParsedInputs /\ pRun = "first"
  /\ pDirs = {} /\ pShards = {} /\ pIndex = <<>>
  /\ pExit = NotExited /\ pLogged = FALSE /\ pByCounty = <<>> /\ pGenera = <<>>
  /\ pTodo = <<>> /\ pFiles = <<>> /\ pFirst = <<>>

\* readFile, JSON.parse and the shape check that throws
PValidate ==
  /\ pPc = "start"
  /\ pPc' = IF RejectsInput(pData) THEN "thrown" ELSE "mkdir"
  /\ UNCHANGED <<pData, pRun, pDirs, pShards, pIndex, pExit, pLogged, pByCounty, pGenera,
                 pTodo, pFiles, pFirst>>
  /\ PartOnly

\* await fs.mkdir(OUT_DIR, { recursive: true })
PMkdir ==
  /\ pPc = "mkdir"
  /\ pDirs' = pDirs \cup {OUT_DIR}
  /\ pPc' = "group"
  /\ UNCHANGED <<pData, pRun, pShards, pIndex, pExit, pLogged, pByCounty, pGenera,
                 pTodo, pFiles, pFirst>>
  /\ PartOnly

\* for (const f of fc.features) { ... }, then the sort of the county keys
PGroup ==
  /\ pPc = "group"
  /\ IF ~pData.iterable \/ \E i \in DOMAIN pData.features : CountyThrows(pData.features[i])
     THEN /\ pPc' = "thrown"
          /\ UNCHANGED <<pByCounty, pGenera, pTodo, pFiles>>
     ELSE /\ pByCounty' = GroupByCounty(pData.features, <<>>)
          /\ pGenera' = GeneraOf(pData.features, <<>>)
          /\ pTodo' = SortedCounties(pByCounty')
          /\ pFiles' = <<>>
          /\ pPc' = "write"
  /\ UNCHANGED <<pData, pRun, pDirs, pShards, pIndex, pExit, pLogged, pFirst>>
  /\ PartOnly

\* one iteration of for (const county of counties): write the shard, record its path
PWriteShard ==
  /\ pPc = "write" /\ pTodo # <<>>
  /\ LET county == Head(pTodo)
         filename == normalizeCountyName(county) \o StrJson
     IN  /\ pShards' = WriteFile(pShards, filename, ByCountyGet(pByCounty, county))
         /\ pFiles' = Append(pFiles, <<county, StrDataHabitats \o filename>>)
  /\ pTodo' = Tail(pTodo)
  /\ UNCHANGED <<pPc, pData, pRun, pDirs, pIndex, pExit, pLogged, pByCounty, pGenera, pFirst>>
  /\ PartOnly

\* await fs.writeFile(INDEX_OUT, JSON.stringify(index, null, 2)), and main returns
PWriteIndex ==
  /\ pPc = "write" /\ pTodo = <<>>
  /\ pIndex' = << [counties |-> WithoutUnknown(SortedCounties(pByCounty)),
                   availableSpecies |-> SortSeq(pGenera, LocaleLess),
                   files |-> pFiles] >>
  /\ pPc' = "done"
  /\ pExit' = 0
  /\ UNCHANGED <<pData, pRun, pDirs, pShards, pLogged, pByCounty, pGenera,
                 pTodo, pFiles, pFirst>>
  /\ PartOnly

\* main().catch((err) => { console.error(...); process.exit(1) })
PCatch ==
  /\ pPc = "thrown"
  /\ pLogged' = TRUE
  /\ pExit' = 1
  /\ pPc' = "exited"
  /\ UNCHANGED <<pData, pRun, pDirs, pShards, pIndex, pByCounty, pGenera, pTodo, pFiles, pFirst>>
  /\ PartOnly

\* the script is run again on the same input and the same output directory
PRerun ==
  /\ pPc = "done" /\ pRun = "first"
  /\ pFirst' = <<[shards |-> pShards, index |-> pIndex]>>
  /\ pRun' = "second"
  /\ pPc' = "start"
  /\ pExit' = NotExited
  /\ pByCounty' = <<>> /\ pGenera' = <<>> /\ pTodo' = <<>> /\ pFiles' = <<>>
  /\ UNCHANGED <<pData, pDirs, pShards, pIndex, pLogged>>
  /\ PartOnly

-----------------------------------------------------------------------------
(* Reprojection, centroid and enrichment                                   *)

\* +x_0 and +y_0 of the EPSG:29903 definition
FalseEasting == 200000
FalseNorthing == 250000

\* a position proj4 can transform: two numbers
WellFormedCoord(coord) == Len(coord) >= 2

\* proj4('EPSG:29903', 'EPSG:4326', coord) on the integer grid of the model:
\* the offset from the false origin, kept monotone in each axis
Proj4(coord) == <<coord[1] - FalseEasting, coord[2] - FalseNorthing>>

\* try { return proj4(...) } catch (e) { return coord }
convertCoordMutantOrigin(coord) == IF WellFormedCoord(coord) THEN Proj4(coord) ELSE <<0, 0>>
convertCoord(coord) == IF WellFormedCoord(coord) THEN Proj4(coord) ELSE coord

GNull == [type |-> "null"]
GPoint(c) == [type |-> "Point", coordinates |-> c]
GPolygon(rings) == [type |-> "Polygon", coordinates |-> rings]
GMultiPolygon(polys) == [type |-> "MultiPolygon", coordinates |-> polys]

ConvertRing(ring) == [i \in DOMAIN ring |-> convertCoord(ring[i])]
ConvertRings(rings) == [i \in DOMAIN rings |-> ConvertRing(rings[i])]

\* reprojectFeature: the geometry of the returned feature
ReprojectGeometry(geom) ==
  IF geom.type = "null" THEN geom
  ELSE IF geom.type = "Point" THEN GPoint(convertCoord(geom.coordinates))
  ELSE IF geom.type = "Polygon" THEN GPolygon(ConvertRings(geom.coordinates))
  ELSE IF geom.type = "MultiPolygon"
       THEN GMultiPolygon([i \in DOMAIN geom.coordinates |-> ConvertRings(geom.coordinates[i])])
  ELSE geom

\* a quotient sum / n; 0 / 0 is NaN
Quotient(sum, n) == [sum |-> sum, n |-> n]
NaN == Quotient(0, 0)

RECURSIVE SumAxis(_, _)
SumAxis(ring, axis) ==
  IF ring = <<>> THEN 0 ELSE Head(ring)[axis] + SumAxis(Tail(ring), axis)

\* the mean of one axis over the ring; adding a missing component gives NaN
MeanAxis(ring, axis) ==
  IF \E i \in DOMAIN ring : Len(ring[i]) < axis THEN NaN
  ELSE Quotient(SumAxis(ring, axis), Len(ring))

\* getCentroid(coordinates) throws when coordinates[0] has no forEach: the first
\* number of a Point, or the missing first ring of an empty coordinates array
CentroidThrows(geom) == geom.type = "Point" \/ geom.coordinates = <<>>

\* getCentroid(coordinates): [lngSum / ring.length, latSum / ring.length]; over
\* the first polygon of a MultiPolygon the sums are of arrays, hence not numbers
getCentroidMutantLatFirst(geom) ==
  IF geom.type = "Polygon"
  THEN <<MeanAxis(geom.coordinates[1], 2), MeanAxis(geom.coordinates[1], 1)>>
  ELSE <<NaN, NaN>>
getCentroid(geom) ==
  IF geom.type = "Polygon"
  THEN <<MeanAxis(geom.coordinates[1], 1), MeanAxis(geom.coordinates[1], 2)>>
  ELSE <<NaN, NaN>>

\* a raw habitat feature of a shard
Habitat(geom, ns, nsnw) == [geometry |-> geom, NS_SPECIES |-> ns, NSNW_DESC |-> nsnw]

\* the second map of enrichHabitats on a reprojected feature
EnrichFeature(f) ==
  [geometry |-> f.geometry, NS_SPECIES |-> f.NS_SPECIES, NSNW_DESC |-> f.NSNW_DESC,
   cleanedSpecies |-> CleanedSpecies(f),
   centroid |-> getCentroid(f.geometry),
   genus |-> getGenusFromSpecies(CleanedSpecies(f))]

\* new Set(habitatsData.features.map((f) => f.geometry.type)) reads the type of
\* every geometry before anything is reprojected
GeometryTypesThrows(features) == \E i \in DOMAIN features : features[i].geometry.type = "null"

\* enrichHabitats(habitatsData): the enriched features, or the exception
enrichHabitats(features) ==
  LET reprojected ==
        [i \in DOMAIN features |->
           [features[i] EXCEPT !.geometry = ReprojectGeometry(features[i].geometry)]]
  IN  IF GeometryTypesThrows(features)
         \/ \E i \in DOMAIN reprojected :
               reprojected[i].geometry.type = "null" \/ CentroidThrows(reprojected[i].geometry)
      THEN [threw |-> TRUE, features |-> <<>>]
      ELSE [threw |-> FALSE,
            features |-> [i \in DOMAIN reprojected |-> EnrichFeature(reprojected[i])]]


-----------------------------------------------------------------------------
(* loadHabitatsForCounty                                                   *)

\* import.meta.env.BASE_URL
BASE_URL == <<"/">>

\* path.replace(/^\/+/, '')
RECURSIVE StripLeadingSlashes(_)
StripLeadingSlashes(s) ==
  IF s # <<>> /\ Head(s) = "/" THEN StripLeadingSlashes(Tail(s)) ELSE s

\* withBaseUrl(path): path.replace throws a TypeError when path is undefined
withBaseUrlMutantDefaultsPath(path) ==
  [threw |-> FALSE,
   url |-> BASE_URL \o StripLeadingSlashes(IF path = Undefined THEN <<>> ELSE path)]
withBaseUrl(path) ==
  IF path = Undefined THEN [threw |-> TRUE, url |-> Undefined]
  ELSE [threw |-> FALSE, url |-> BASE_URL \o StripLeadingSlashes(path)]

\* raw.toLowerCase().replace(/\b\w/g, (l) => l.toUpperCase()).trim()
titleCaseCounty(raw) ==
  LET lower == ToLowerCase(raw)
  IN  Trim([i \in DOMAIN lower |->
              IF IsWordChar(lower[i]) /\ (i = 1 \/ ~IsWordChar(lower[i - 1]))
              THEN UpperChar(lower[i]) ELSE lower[i]])

\* index.files[key]
FilesGet(files, key) ==
  IF \E i \in DOMAIN files : files[i][1] = key
  THEN files[CHOOSE i \in DOMAIN files : files[i][1] = key][2]
  ELSE Undefined

ShardPath(county) == StrDataHabitats \o normalizeCountyName(county) \o StrJson

StrKerry == <<"K","e","r","r","y">>

\* the county names the hook passes: selectedCounty.toLowerCase()
LoadCounties == {ToLowerCase(StrCork), ToLowerCase(StrDublin), ToLowerCase(StrKerry)}

\* index.files of a loaded index: shards for some of the counties
IndexFiles ==
  { <<>>,
    << <<StrCork, ShardPath(StrCork)>> >>,
    << <<StrCork, ShardPath(StrCork)>>, <<StrDublin, ShardPath(StrDublin)>> >> }

Square == << <<200010, 250010>>, <<200030, 250010>>, <<200030, 250050>>, <<200010, 250050>> >>
Triangle == << <<200000, 250000>>, <<200060, 250000>>, <<200000, 250090>> >>

\* shard features: polygons, a polygon with a malformed position, a polygon
\* whose NS_SPECIES is the empty string, a multi polygon, a point, and a
\* feature without geometry
HabitatSamples ==
  { Habitat(GPolygon(<<Square>>), StrQRobur, Undefined),
    Habitat(GPolygon(<<Triangle, Square>>), Undefined, StrNotDetermined),
    Habitat(GPolygon(<< <<Square[1], <<200020>>, Square[3]>> >>), StrFExcelsior, Undefined),
    Habitat(GPolygon(<<Triangle>>), <<>>, StrQRobur),
    Habitat(GMultiPolygon(<< <<Square>>, <<Triangle>> >>), Undefined, Undefined),
    Habitat(GPoint(<<200010, 250010>>), StrSalix, Undefined),
    Habitat(GNull, StrQRobur, Undefined) }

MaxShard == 2

\* what res.json() can resolve with: a non-object, an object without features,
\* an object whose features is not an array, or a feature collection
JsonBodies ==
  { [kind |-> k, hasFeatures |-> FALSE, isArray |-> FALSE, features |-> <<>>]
      : k \in {"null", "number"} }
  \cup { [kind |-> "object", hasFeatures |-> FALSE, isArray |-> FALSE, features |-> <<>>],
         [kind |-> "object", hasFeatures |-> TRUE, isArray |-> FALSE, features |-> <<>>] }
  \cup { [kind |-> "object", hasFeatures |-> TRUE, isArray |-> TRUE, features |-> fs]
          : fs \in SeqsUpTo(HabitatSamples, MaxShard) }

NoBody == [kind |-> "none", hasFeatures |-> FALSE, isArray |-> FALSE, features |-> <<>>]

Pending == [state |-> "pending", error |-> "", features |-> <<>>]
Rejected(e) == [state |-> "rejected", error |-> e, features |-> <<>>]
Resolved(fs) == [state |-> "resolved", error |-> "", features |-> fs]

IdleLoad ==
  /\ lPc = "idle" /\ lCounty = <<>> /\ lIndex = <<>> /\ lUrl = Undefined
  /\ lFetches = <<>> /\ lResponse = "none" /\ lBody = NoBody /\ lResult = Pending

InitLoadCall ==
  /\ lPc = "lookup" /\ lCounty \in LoadCounties /\ lIndex \in IndexFiles
  /\ lUrl = Undefined /\ lFetches = <<>> /\ lResponse = "none" /\ lBody = NoBody
  /\ lResult = Pending

\* from the call to the first await: the lookup, withBaseUrl, the url check, fetch(url)
LLookup ==
  /\ lPc = "lookup"
  /\ LET file == FilesGet(lIndex, titleCaseCounty(lCounty))
         based == withBaseUrl(file)
     IN  IF based.threw
         THEN /\ lResult' = Rejected("TypeError") /\ lPc' = "settled"
              /\ UNCHANGED <<lUrl, lFetches>>
         ELSE IF ~Truthy(based.url)
         THEN /\ lResult' = Rejected("No habitat file") /\ lPc' = "settled"
              /\ lUrl' = based.url
              /\ UNCHANGED lFetches
         ELSE /\ lUrl' = based.url
              /\ lFetches' = Append(lFetches, based.url)
              /\ lPc' = "fetching"
              /\ UNCHANGED lResult
  /\ UNCHANGED <<lCounty, lIndex, lResponse, lBody>>
  /\ LoadOnly

\* fetch settles: a network failure, or a response that is ok or not
LFetchSettles ==
  /\ lPc = "fetching"
  /\ \E outcome \in {"network", "notOk", "ok"} :
       /\ lResponse' = outcome
       /\ IF outcome = "ok"
          THEN lPc' = "parsing" /\ UNCHANGED lResult
          ELSE /\ lResult' = Rejected(IF outcome = "network" THEN "fetch failed"
                                                               ELSE "Habitats status")
               /\ lPc' = "settled"
  /\ UNCHANGED <<lCounty, lIndex, lUrl, lFetches, lBody>>
  /\ LoadOnly

\* res.json() rejects on text that is not JSON
LJsonFails ==
  /\ lPc = "parsing"
  /\ lResult' = Rejected("SyntaxError")
  /\ lPc' = "settled"
  /\ UNCHANGED <<lCounty, lIndex, lUrl, lFetches, lResponse, lBody>>
  /\ LoadOnly

\* res.json() resolves: the shape check, then return enrichHabitats(data)
LJsonParsed ==
  /\ lPc = "parsing"
  /\ \E data \in JsonBodies :
       /\ lBody' = data
       /\ lResult' =
            IF data.kind # "object" \/ ~data.hasFeatures THEN Rejected("Invalid habitat data format")
            ELSE IF ~data.isArray \/ enrichHabitats(data.features).threw THEN Rejected("TypeError")
            ELSE Resolved(enrichHabitats(data.features).features)
  /\ lPc' = "settled"
  /\ UNCHANGED <<lCounty, lIndex, lUrl, lFetches, lResponse>>
  /\ LoadOnly

-----------------------------------------------------------------------------
(* useControlPanelLogic and App: county selection and shard loads          *)

MaxLoads == 3

\* the index the application fetches at start
LoadedIndex ==
  [counties |-> <<StrCork, StrDublin>>,
   files |-> << <<StrCork, ShardPath(StrCork)>>, <<StrDublin, ShardPath(StrDublin)>> >>]

\* the COUNTY property of the county outlines
OutlineCounties == {<<"C","O","R","K">>, <<"D","U","B","L","I","N">>, <<"K","E","R","R","Y">>}

NoCounty == <<>>
NoHabitats == <<>>

\* the collection a settled load hands to setHabitats
ShardCollection(county) == <<[shard |-> titleCaseCounty(ToLowerCase(county))]>>

\* whether loadHabitatsForCounty can resolve for this county at all
HasShard(county) ==
  /\ habitatIndex # <<>>
  /\ FilesGet(habitatIndex[1].files, titleCaseCounty(ToLowerCase(county))) # Undefined

panelDisabledMutantNoIndexWait == isLoadingCounty \/ habitatIndex = <<>>
panelDisabled == isLoadingIndex \/ isLoadingCounty \/ habitatIndex = <<>>

\* availableSpecies of the index: the sorted genera the partitioner found
IndexSpeciesLists == {<<>>, <<StrFraxinus>>, <<StrFraxinus, StrQuercus>>}

\* the enriched features of a county's shard: a site of the county, a site whose
\* COUNTY is padded, and a site lying in two counties
ShardFeatures(shard) ==
  <<[COUNTY |-> CStr(shard), genus |-> StrQuercus],
    [COUNTY |-> CStr(shard \o <<" ">>), genus |-> StrFraxinus],
    [COUNTY |-> CArr(<<shard, IF shard = StrCork THEN StrDublin ELSE StrCork>>), genus |-> Null]>>

\* the county test of filteredHabitats
CountyMatchesMutantAny(f, county) == TRUE
CountyMatches(f, county) ==
  IF f.COUNTY.t = "arr" THEN county \in Range(f.COUNTY.items)
  ELSE f.COUNTY.t = "str" /\ f.COUNTY.v = county

StrAll == <<"A","l","l">>

\* the species test of filteredHabitats
SpeciesMatches(f) == Truthy(f.genus) /\ f.genus \in Range(selectedSpecies)

\* useMemo filteredHabitats: null, or the collection with the features kept
filteredHabitats ==
  IF habitats = NoHabitats THEN NoHabitats
  ELSE IF selectedCounty = NoCounty THEN <<[features |-> <<>>]>>
  ELSE LET all == ShardFeatures(habitats[1].shard)
           byCounty == IF selectedCounty # StrAll
                       THEN SelectSeq(all, LAMBDA f : CountyMatches(f, selectedCounty))
                       ELSE all
           bySpecies == IF Len(selectedSpecies) > 0 /\ Len(selectedSpecies) < Len(availableSpecies)
                        THEN SelectSeq(byCounty, SpeciesMatches)
                        ELSE byCounty
       IN <<[features |-> bySpecies]>>

\* the effect that closes the species dropdown of a disabled panel
\* (closedByEffect records that the step just taken closed it this way)
DropdownEffectMutantNone(open) == speciesDropdownOpen' = open /\ closedByEffect' = FALSE
DropdownEffect(open) ==
  /\ speciesDropdownOpen' = (open /\ ~panelDisabled')
  /\ closedByEffect' = (open /\ panelDisabled')

KeepSpecies == UNCHANGED <<availableSpecies, selectedSpecies>>

\* useMemo filteredHabitats is null exactly when habitats is null
filteredHabitatsIsNull == habitats = NoHabitats

IdlePanel ==
  /\ habitatIndex = <<>> /\ isLoadingIndex = FALSE /\ countiesGeoJSON = FALSE
  /\ zoomedIn = FALSE /\ selectedCounty = NoCounty /\ habitats = NoHabitats
  /\ isLoadingCounty = FALSE /\ inflight = {} /\ dispatched = 0 /\ lastSettled = <<>>
  /\ availableSpecies = <<>> /\ selectedSpecies = <<>> /\ speciesDropdownOpen = FALSE
  /\ closedByEffect = FALSE

InitPanel ==
  /\ habitatIndex = <<>> /\ isLoadingIndex = TRUE /\ countiesGeoJSON = FALSE
  /\ zoomedIn = FALSE /\ selectedCounty = NoCounty /\ habitats = NoHabitats
  /\ isLoadingCounty = FALSE /\ inflight = {} /\ dispatched = 0 /\ lastSettled = <<>>
  /\ availableSpecies = <<>> /\ selectedSpecies = <<>> /\ speciesDropdownOpen = FALSE
  /\ closedByEffect = FALSE

\* the loadCounty effect, run after selectedCounty or habitatIndex changed
LoadCountyEffect(county, index) ==
  IF county = NoCounty
  THEN /\ habitats' = NoHabitats
       /\ UNCHANGED <<isLoadingCounty, inflight, dispatched>>
  ELSE IF index = <<>>
  THEN UNCHANGED <<habitats, isLoadingCounty, inflight, dispatched>>
  ELSE /\ isLoadingCounty' = TRUE
       /\ dispatched' = dispatched + 1
       /\ inflight' = inflight \cup {[id |-> dispatched + 1, county |-> county]}
       /\ UNCHANGED habitats

\* setSelectedCounty(county) and the effects of the render it causes
SetSelectedCounty(county) ==
  /\ county # selectedCounty
  /\ county # NoCounty => dispatched < MaxLoads
  /\ selectedCounty' = county
  /\ LoadCountyEffect(county, habitatIndex)
  /\ UNCHANGED <<habitatIndex, isLoadingIndex, countiesGeoJSON, zoomedIn, lastSettled>>
  /\ KeepSpecies /\ DropdownEffect(speciesDropdownOpen)
  /\ PanelOnly

\* loadIndex: loadHabitatData() resolved, the index is set
IndexLoaded ==
  /\ isLoadingIndex /\ habitatIndex = <<>>
  /\ habitatIndex' = <<LoadedIndex>>
  /\ LoadCountyEffect(selectedCounty, habitatIndex')
  /\ \E speciesList \in IndexSpeciesLists :
       /\ availableSpecies' = speciesList
       /\ selectedSpecies' = speciesList
  /\ UNCHANGED <<isLoadingIndex, countiesGeoJSON, zoomedIn, selectedCounty, lastSettled>>
  /\ DropdownEffect(speciesDropdownOpen)
  /\ PanelOnly

\* loadIndex: loadCountiesData() resolved (with outlines or without), then finally
CountiesLoaded ==
  /\ isLoadingIndex /\ habitatIndex # <<>>
  /\ countiesGeoJSON' \in BOOLEAN
  /\ isLoadingIndex' = FALSE
  /\ UNCHANGED <<habitatIndex, zoomedIn, selectedCounty, habitats, isLoadingCounty,
                 inflight, dispatched, lastSettled>>
  /\ KeepSpecies /\ DropdownEffect(speciesDropdownOpen)
  /\ PanelOnly

\* loadIndex: loadHabitatData() rejected, then finally
IndexFailed ==
  /\ isLoadingIndex /\ habitatIndex = <<>>
  /\ isLoadingIndex' = FALSE
  /\ UNCHANGED <<habitatIndex, countiesGeoJSON, zoomedIn, selectedCounty, habitats,
                 isLoadingCounty, inflight, dispatched, lastSettled>>
  /\ KeepSpecies /\ DropdownEffect(speciesDropdownOpen)
  /\ PanelOnly

\* onChange of the county select
SelectCounty ==
  /\ ~panelDisabled
  /\ \E county \in Range(habitatIndex[1].counties) \cup {NoCounty} : SetSelectedCounty(county)

\* click on a county outline, rendered below zoom 11 while filteredHabitats is null
ClickCountyOutline ==
  /\ countiesGeoJSON /\ ~zoomedIn /\ filteredHabitatsIsNull
  /\ \E county \in OutlineCounties : SetSelectedCounty(titleCaseCounty(county))

\* handleHome
Home == SetSelectedCounty(NoCounty)

\* ZoomTracker: the debounced zoomend handler reports a zoom on the other side of 11
Zoom ==
  /\ zoomedIn' = ~zoomedIn
  /\ UNCHANGED <<habitatIndex, isLoadingIndex, countiesGeoJSON, selectedCounty, habitats,
                 isLoadingCounty, inflight, dispatched, lastSettled>>
  /\ KeepSpecies /\ DropdownEffect(speciesDropdownOpen)
  /\ PanelOnly

\* setHabitats(habitatsData) after the await
SettledHabitatsMutantDropsStale(load, result) ==
  IF load.county = selectedCounty THEN result ELSE habitats
SettledHabitats(load, result) == result

\* an in-flight loadHabitatsForCounty settles: try / catch / finally of loadCounty
LoadSettles ==
  \E load \in inflight :
    \E result \in {NoHabitats} \cup (IF HasShard(load.county)
                                     THEN {ShardCollection(load.county)} ELSE {}) :
      /\ habitats' = SettledHabitats(load, result)
      /\ isLoadingCounty' = FALSE
      /\ inflight' = inflight \ {load}
      /\ lastSettled' = <<[id |-> load.id, county |-> load.county, result |-> result]>>
      /\ UNCHANGED <<habitatIndex, isLoadingIndex, countiesGeoJSON, zoomedIn, selectedCounty,
                     dispatched>>
      /\ KeepSpecies /\ DropdownEffect(speciesDropdownOpen)
      /\ PanelOnly

------------------------------------------------------------------------

PanelRest ==
  UNCHANGED <<habitatIndex, isLoadingIndex, countiesGeoJSON, zoomedIn, selectedCounty, habitats,
              isLoadingCounty, inflight, dispatched, lastSettled>>

\* click on the species button: setSpeciesDropdownOpen(!speciesDropdownOpen)
ToggleDropdown ==
  /\ ~panelDisabled
  /\ PanelRest /\ KeepSpecies
  /\ DropdownEffect(~speciesDropdownOpen)
  /\ PanelOnly

\* mousedown outside .species-filter while the dropdown is open
ClickOutside ==
  /\ speciesDropdownOpen
  /\ PanelRest /\ KeepSpecies
  /\ DropdownEffect(FALSE)
  /\ PanelOnly

Includes1(list, item) == \E i \in DOMAIN list : list[i] = item

\* toggleSpecies(genus), from the checkbox of a genus of availableSpecies
toggleSpecies(genus) ==
  /\ selectedSpecies' =
       IF Includes1(selectedSpecies, genus) /\ Len(selectedSpecies) = 1 THEN selectedSpecies
       ELSE IF Includes1(selectedSpecies, genus)
            THEN SelectSeq(selectedSpecies, LAMBDA s : s # genus)
            ELSE Append(selectedSpecies, genus)
  /\ UNCHANGED availableSpecies
  /\ PanelRest
  /\ DropdownEffect(speciesDropdownOpen)
  /\ PanelOnly

ToggleSpecies ==
  /\ ~panelDisabled
  /\ \E genus \in Range(availableSpecies) : toggleSpecies(genus)

\* availableSpecies[0]
FirstAvailable == IF availableSpecies = <<>> THEN Undefined ELSE availableSpecies[1]

\* toggleAllSpecies, from the Select All checkbox
toggleAllSpecies ==
  /\ ~panelDisabled
  /\ selectedSpecies' =
       IF Len(selectedSpecies) = Len(availableSpecies) THEN <<FirstAvailable>>
       ELSE availableSpecies
  /\ UNCHANGED availableSpecies
  /\ PanelRest
  /\ DropdownEffect(speciesDropdownOpen)
  /\ PanelOnly

-----------------------------------------------------------------------------
(* useFlashPolygons: three flashes of every path layer of the GeoJSON      *)

flashes == 3
onMs == 250
offMs == 200
MaxFlashCalls == 2

\* the layers of the GeoJSON: two paths and one layer without setStyle
PathLayers == {"polygon 1", "polygon 2"}
OtherLayers == {"marker"}
Layers == PathLayers \cup OtherLayers
HasSetStyle(layer) == layer \in PathLayers

\* path.options as deriveStyleFeature and Leaflet's defaults leave them
StyleSamples ==
  {[weight |-> "1.5", opacity |-> "0.9", fillOpacity |-> "0.5", color |-> "#1a6b1a",
    fillColor |-> "#228B22"],
   [weight |-> "1.5", opacity |-> "0.9", fillOpacity |-> "0.5", color |-> "#333333",
    fillColor |-> "#808080"],
   [weight |-> "3", opacity |-> "1", fillOpacity |-> "0.2", color |-> "#3388ff",
    fillColor |-> "#3388ff"]}

FlashStyle == [weight |-> "5", opacity |-> "1", fillOpacity |-> "0.75", color |-> "#ffffff"]

\* path.setStyle(style): the given options replace those of the same name
setStyle(options, style) ==
  [k \in DOMAIN options |-> IF k \in DOMAIN style THEN style[k] ELSE options[k]]

\* originals.set(layer, { ...path.options }) for every layer with setStyle
CaptureOriginals(styles) == [layer \in {l \in Layers : HasSetStyle(l)} |-> styles[layer]]

flashOn(styles) ==
  [layer \in DOMAIN styles |->
     IF HasSetStyle(layer) THEN setStyle(styles[layer], FlashStyle) ELSE styles[layer]]

flashOffMutantKeepsFlash(styles, captured) == styles
flashOff(styles, captured) ==
  [layer \in DOMAIN styles |->
     IF HasSetStyle(layer) /\ layer \in DOMAIN captured
     THEN setStyle(styles[layer], captured[layer]) ELSE styles[layer]]

\* one application of a style to the path layers, at a time counted from the call
Applied(kind, time) == [at |-> time, style |-> kind]

IdleFlash ==
  /\ geoJsonRef = FALSE /\ layerStyle = <<>> /\ originals = <<>> /\ flashI = 0
  /\ flashPc = "unused" /\ isFlashing = FALSE /\ now = 0 /\ flashStart = 0 /\ flashDue = 0
  /\ flashLog = <<>> /\ flashCalls = 0

InitFlashHook ==
  /\ geoJsonRef \in BOOLEAN
  /\ layerStyle \in [PathLayers -> StyleSamples]
  /\ originals = <<>> /\ flashI = 0
  /\ flashPc = "idle" /\ isFlashing = FALSE /\ now = 0 /\ flashStart = 0 /\ flashDue = 0
  /\ flashLog = <<>> /\ flashCalls = 0

\* the GeoJSON component mounts or unmounts: the ref gets or loses its object
GeoJsonRefChanges ==
  /\ flashPc # "unused"
  /\ geoJsonRef' = ~geoJsonRef
  /\ UNCHANGED <<layerStyle, originals, flashI, flashPc, isFlashing, now, flashStart,
                 flashDue, flashLog, flashCalls>>
  /\ FlashOnly

\* flash(), from the highlight button, which is disabled while isFlashing
Flash ==
  /\ flashPc = "idle" /\ ~isFlashing /\ flashCalls < MaxFlashCalls
  /\ flashCalls' = flashCalls + 1
  /\ IF ~geoJsonRef
     THEN UNCHANGED <<layerStyle, originals, flashI, flashPc, isFlashing, now, flashStart,
                      flashDue, flashLog>>
     ELSE /\ isFlashing' = TRUE
          /\ originals' = CaptureOriginals(layerStyle)
          /\ flashI' = 0
          /\ flashStart' = now /\ now' = now
          /\ layerStyle' = flashOn(layerStyle)
          /\ flashLog' = <<Applied("flash", 0)>>
          /\ flashDue' = now + onMs
          /\ flashPc' = "on"
  /\ UNCHANGED geoJsonRef
  /\ FlashOnly

\* the onMs timer fires: flashOff, i += 1, the offMs timer is set
FlashOnTimer ==
  /\ flashPc = "on"
  /\ now' = flashDue
  /\ layerStyle' = flashOff(layerStyle, originals)
  /\ flashLog' = Append(flashLog, Applied("original", flashDue - flashStart))
  /\ flashI' = flashI + 1
  /\ flashDue' = now' + offMs
  /\ flashPc' = "off"
  /\ UNCHANGED <<geoJsonRef, originals, isFlashing, flashStart, flashCalls>>
  /\ FlashOnly

\* the offMs timer fires: run() again
FlashOffTimer ==
  /\ flashPc = "off"
  /\ now' = flashDue
  /\ IF flashI >= flashes
     THEN /\ layerStyle' = flashOff(layerStyle, originals)
          /\ flashLog' = Append(flashLog, Applied("original", flashDue - flashStart))
          /\ isFlashing' = FALSE
          /\ flashPc' = "idle"
          /\ UNCHANGED flashDue
     ELSE /\ layerStyle' = flashOn(layerStyle)
          /\ flashLog' = Append(flashLog, Applied("flash", flashDue - flashStart))
          /\ flashDue' = now' + onMs
          /\ flashPc' = "on"
          /\ UNCHANGED isFlashing
  /\ UNCHANGED <<geoJsonRef, originals, flashI, flashStart, flashCalls>>
  /\ FlashOnly

-----------------------------------------------------------------------------
(* useContextMenu: the menu position and the document's click listener     *)

MaxCoord == 3

\* the positions a contextmenu event of the map can carry
MenuPositions ==
  {[x |-> x, y |-> y, lat |-> lat, lng |-> lng] :
     x \in 0..MaxCoord, y \in 0..MaxCoord, lat \in {"51.9", "53.35"}, lng \in {"-7.5", "-6.26"}}

NoMenu == <<>>

\* the effect on [menuPosition, closeMenu]: the cleanup of the previous run,
\* then the body for the position now rendered
MenuEffectMutantNoCleanup(listeners, before, after) ==
  IF after # NoMenu THEN listeners \cup {"closeMenu"} ELSE listeners
MenuEffect(listeners, before, after) ==
  LET cleaned == IF before # NoMenu THEN listeners \ {"closeMenu"} ELSE listeners
  IN IF after # NoMenu THEN cleaned \cup {"closeMenu"} ELSE cleaned

setMenuPosition(position) ==
  /\ menuPosition' = IF mounted THEN <<position>> ELSE menuPosition
  /\ clickListeners' = IF mounted THEN MenuEffect(clickListeners, menuPosition, menuPosition')
                       ELSE clickListeners
  /\ UNCHANGED mounted
  /\ MenuOnly

IdleMenu == menuPosition = NoMenu /\ mounted = FALSE /\ clickListeners = {}

InitMenuHook == menuPosition = NoMenu /\ mounted = TRUE /\ clickListeners = {}

handleContextMenu == \E position \in MenuPositions : setMenuPosition(position)

closeMenu ==
  /\ menuPosition' = IF mounted THEN NoMenu ELSE menuPosition
  /\ clickListeners' = IF mounted THEN MenuEffect(clickListeners, menuPosition, NoMenu)
                       ELSE clickListeners
  /\ UNCHANGED mounted
  /\ MenuOnly

\* a click reaches the document: every registered listener is called
DocumentClick ==
  IF "closeMenu" \in clickListeners
  THEN closeMenu
  ELSE UNCHANGED vars

\* the component unmounts: the cleanup of the last effect run
Unmount ==
  /\ mounted
  /\ mounted' = FALSE
  /\ clickListeners' = IF menuPosition # NoMenu THEN clickListeners \ {"closeMenu"}
                       ELSE clickListeners
  /\ UNCHANGED menuPosition
  /\ MenuOnly

-----------------------------------------------------------------------------
(* Specifications                                                          *)

Init == InitPanel /\ IdleClean /\ IdlePart /\ IdleLoad /\ IdleStyle /\ IdleFlash /\ IdleMenu
Next ==
  \/ IndexLoaded \/ CountiesLoaded \/ IndexFailed \/ SelectCounty
  \/ ClickCountyOutline \/ Home \/ Zoom \/ LoadSettles
  \/ ToggleDropdown \/ ClickOutside \/ ToggleSpecies \/ toggleAllSpecies
Spec == Init /\ [][Next]_vars

InitClean == InitCleanCall /\ IdlePart /\ IdleLoad /\ IdlePanel /\ IdleStyle /\ IdleFlash /\ IdleMenu
NextClean == CleanCall
SpecClean == InitClean /\ [][NextClean]_vars

InitPart == InitPartRun /\ IdleClean /\ IdleLoad /\ IdlePanel /\ IdleStyle /\ IdleFlash /\ IdleMenu
NextPart == PValidate \/ PMkdir \/ PGroup \/ PWriteShard \/ PWriteIndex \/ PCatch \/ PRerun
SpecPart == InitPart /\ [][NextPart]_vars

InitLoad == InitLoadCall /\ IdleClean /\ IdlePart /\ IdlePanel /\ IdleStyle /\ IdleFlash /\ IdleMenu
NextLoad == LLookup \/ LFetchSettles \/ LJsonFails \/ LJsonParsed
SpecLoad == InitLoad /\ [][NextLoad]_vars

InitMixed == InitMixedCall /\ IdlePart /\ IdleLoad /\ IdlePanel /\ IdleStyle /\ IdleFlash /\ IdleMenu
NextMixed == CleanCall
SpecMixed == InitMixed /\ [][NextMixed]_vars

InitFlash == InitFlashHook /\ IdleClean /\ IdlePart /\ IdleLoad /\ IdlePanel /\ IdleStyle /\ IdleMenu
NextFlash == GeoJsonRefChanges \/ Flash \/ FlashOnTimer \/ FlashOffTimer
SpecFlash == InitFlash /\ [][NextFlash]_vars

InitMenu == InitMenuHook /\ IdleClean /\ IdlePart /\ IdleLoad /\ IdlePanel /\ IdleStyle /\ IdleFlash
NextMenu == handleContextMenu \/ closeMenu \/ DocumentClick \/ Unmount
SpecMenu == InitMenu /\ [][NextMenu]_vars

InitStyle == InitStyleCall /\ IdleClean /\ IdlePart /\ IdleLoad /\ IdlePanel /\ IdleFlash /\ IdleMenu
NextStyle == SGenus \/ SColor \/ SShade
SpecStyle == InitStyle /\ [][NextStyle]_vars

-----------------------------------------------------------------------------
(* Properties                                                              *)

HasNullGeometry(fs) == \E i \in DOMAIN fs : fs[i].geometry.type = "null"

\* C1: enrichHabitats on a collection holding a feature without geometry does
\* not throw: the load resolves, the feature stays in the collection unchanged
\* in its geometry, and every other feature is enriched.  (Stated for shards
\* whose other features are all polygons.)
C1_NullGeometryTolerated ==
  ( /\ lPc = "settled" /\ lBody.isArray
    /\ HasNullGeometry(lBody.features)
    /\ \A i \in DOMAIN lBody.features :
          lBody.features[i].geometry.type \in {"null", "Polygon"} )
  => /\ lResult.state = "resolved"
     /\ Len(lResult.features) = Len(lBody.features)
     /\ \A i \in DOMAIN lBody.features :
          lBody.features[i].geometry.type = "null" => lResult.features[i].geometry = GNull

\* the load whose settling a step records, if the step settles one
SettledBy(before, after) == {l \in before : l \notin after}

\* C2: no in-flight load is cancelled (a load leaves the in-flight set only by
\* settling), and right after a load settles the habitats state is that load's
\* result, whichever county is selected and whichever load was dispatched last.
C2_CompletionOrderDecides ==
  [][ /\ \A l \in inflight :
           l \notin inflight' => /\ lastSettled' # lastSettled
                                 /\ lastSettled'[1].id = l.id
      /\ lastSettled' # lastSettled =>
           /\ habitats' = lastSettled'[1].result
           /\ SettledBy(inflight, inflight') =
                {[id |-> lastSettled'[1].id, county |-> lastSettled'[1].county]} ]_vars

\* C2 witness: a load dispatched later has settled while an earlier one is
\* still in flight, and its collection is held although another county is selected
C2_Witness ==
  /\ lastSettled # <<>> /\ habitats # NoHabitats
  /\ habitats = lastSettled[1].result
  /\ \E l \in inflight : l.id < lastSettled[1].id
  /\ selectedCounty # lastSettled[1].county

\* C3: loadHabitatsForCounty rejects, and never returns a collection, when the
\* index has no shard for the normalised county (and then no fetch is issued),
\* when the response is not ok, or when the body is not an object with a
\* features field; it resolves only otherwise, with the enriched collection.
C3_LoadRejects ==
  /\ FilesGet(lIndex, titleCaseCounty(lCounty)) = Undefined =>
       /\ lFetches = <<>>
       /\ lPc \in {"lookup", "settled"}
       /\ lPc = "settled" => lResult.state = "rejected"
  /\ (lPc = "settled" /\ lResponse \in {"network", "notOk"}) => lResult.state = "rejected"
  /\ (lPc = "settled" /\ lResponse = "ok" /\ (lBody.kind # "object" \/ ~lBody.hasFeatures)) =>
       lResult.state = "rejected"
  /\ lResult.state = "resolved" =>
       /\ lPc = "settled" /\ lResponse = "ok" /\ Len(lFetches) = 1
       /\ FilesGet(lIndex, titleCaseCounty(lCounty)) # Undefined
       /\ lBody.kind = "object" /\ lBody.hasFeatures
       /\ Len(lResult.features) = Len(lBody.features)
       /\ \A i \in DOMAIN lResult.features :
            lResult.features[i].cleanedSpecies = CleanedSpecies(lBody.features[i])

\* C3 witness: a call for a county without a shard has settled, rejected,
\* without any fetch
C3_Witness ==
  /\ lPc = "settled" /\ lResult.state = "rejected" /\ lFetches = <<>>
  /\ FilesGet(lIndex, titleCaseCounty(lCounty)) = Undefined
  /\ lIndex # <<>>

\* the county key the claims speak of: the trimmed COUNTY string
TrimmedKey(f) == IF f.COUNTY.t = "str" THEN Trim(f.COUNTY.v) ELSE StrUnknown

\* a COUNTY that is absent, empty or white space only
MissingCounty(f) ==
  \/ f.COUNTY.t = "absent"
  \/ f.COUNTY.t = "str" /\ \A i \in DOMAIN f.COUNTY.v : IsSpace(f.COUNTY.v[i])

\* the county key of a feature as the claims define it
ClaimKey(f) == IF MissingCounty(f) THEN StrUnknown ELSE TrimmedKey(f)

\* the features of the input with the given key, in input order
RECURSIVE WithKey(_, _)
WithKey(fs, key) ==
  IF fs = <<>> THEN <<>>
  ELSE (IF ClaimKey(Head(fs)) = key THEN <<Head(fs)>> ELSE <<>>) \o WithKey(Tail(fs), key)

InputKeys == {ClaimKey(pData.features[i]) : i \in DOMAIN pData.features}

\* the name of the shard file index.files gives for a county
ShardFileOf(files, county) ==
  SubSeq(FilesGet(files, county), Len(StrDataHabitats) + 1, Len(FilesGet(files, county)))

\* C4: once the partitioner has finished, the shard files are a total partition
\* of the input by trimmed county key: as many shard files as distinct keys,
\* the keys of index.files are exactly the distinct keys, and the file of each
\* key holds exactly the input features with that key, in input order.
C4_ShardsPartitionInput ==
  pPc = "done" =>
    /\ Cardinality(pShards) = Cardinality(InputKeys)
    /\ Range(MapKeys(pIndex[1].files)) = InputKeys
    /\ \A key \in InputKeys :
         FileContent(pShards, ShardFileOf(pIndex[1].files, key)) = WithKey(pData.features, key)

\* C5: a feature whose COUNTY is an array of strings does not fail the run, and
\* it is placed in the shard of every county the array lists.
C5_ArrayCountyInEachShard ==
  ( /\ pPc \in {"done", "exited"} /\ ~RejectsInput(pData) /\ pData.iterable
    /\ \E i \in DOMAIN pData.features : pData.features[i].COUNTY.t = "arr" )
  => /\ pPc = "done"
     /\ \A i \in DOMAIN pData.features :
          pData.features[i].COUNTY.t = "arr" =>
            \A k \in DOMAIN pData.features[i].COUNTY.items :
              pData.features[i] \in
                Range(FileContent(pShards, normalizeCountyName(pData.features[i].COUNTY.items[k])
                                           \o StrJson))

\* C6: two distinct county keys never share a shard file: the paths of
\* index.files are pairwise distinct, and each names a file holding exactly the
\* features grouped under its county.
C6_OneFilePerCounty ==
  pPc = "done" =>
    /\ \A i, j \in DOMAIN pIndex[1].files :
         i # j => pIndex[1].files[i][2] # pIndex[1].files[j][2]
    /\ \A i \in DOMAIN pIndex[1].files :
         FileContent(pShards, ShardFileOf(pIndex[1].files, pIndex[1].files[i][1]))
           = ByCountyGet(pByCounty, pIndex[1].files[i][1])

StrictlyAscending(cs) == \A i \in 1..(Len(cs) - 1) : LocaleLess(cs[i], cs[i + 1])

\* C7: a feature without a usable COUNTY never makes the run fail (the run
\* throws only on a malformed input, a features value that is no array or an
\* array-valued COUNTY); such a feature is grouped under "Unknown"; and
\* index.counties is the ascending, duplicate-free list of the distinct county
\* keys other than "Unknown", each with an entry in index.files.
C7_MissingCountyToUnknown ==
  /\ pPc \in {"thrown", "exited"} =>
       \/ RejectsInput(pData) \/ ~pData.iterable
       \/ \E i \in DOMAIN pData.features : pData.features[i].COUNTY.t = "arr"
  /\ pPc \in {"write", "done"} =>
       \A i \in DOMAIN pData.features :
         MissingCounty(pData.features[i]) =>
           pData.features[i] \in Range(ByCountyGet(pByCounty, StrUnknown))
  /\ pPc = "done" =>
       /\ StrictlyAscending(pIndex[1].counties)
       /\ Range(pIndex[1].counties) = InputKeys \ {StrUnknown}
       /\ \A c \in Range(pIndex[1].counties) : FilesGet(pIndex[1].files, c) # Undefined

\* C7 witness: a finished run whose input had a feature without COUNTY and a
\* feature with a blank COUNTY, next to a named county
C7_Witness ==
  /\ pPc = "done"
  /\ \E i \in DOMAIN pData.features : pData.features[i].COUNTY.t = "absent"
  /\ \E i \in DOMAIN pData.features :
       pData.features[i].COUNTY.t = "str" /\ MissingCounty(pData.features[i])
  /\ Len(pIndex[1].counties) >= 1
  /\ Len(ByCountyGet(pByCounty, StrUnknown)) = 2

MalformedTopLevel ==
  pData.kind \in {"null", "number", "string"} \/ ~pData.hasType \/ ~pData.hasFeatures

\* C9: on a malformed top-level input the partitioner creates no output
\* directory, shard file or index file, never gets past the shape check, and
\* when it has exited the error was logged and the exit code is 1.
C9_MalformedInputNoOutput ==
  MalformedTopLevel =>
    /\ pPc \in {"start", "thrown", "exited"}
    /\ pDirs = {} /\ pShards = {} /\ pIndex = <<>>
    /\ pPc = "exited" => (pLogged /\ pExit = 1)
    /\ pPc # "exited" => pExit = NotExited

\* C9 witness: the run has exited on an object that has features but no type
C9_Witness ==
  /\ pPc = "exited" /\ pExit = 1 /\ pLogged
  /\ pData.kind = "object" /\ pData.hasFeatures /\ ~pData.hasType
  /\ pData.features # <<>>

\* the number of entries of raw satisfying a predicate given as a set of entries
CountIn(raw, S) == Cardinality({i \in DOMAIN raw : raw[i] \in S})

\* the entries kept by the amended rule, in input order
RECURSIVE KeptEntries(_)
KeptEntries(raw) ==
  IF raw = <<>> THEN <<>>
  ELSE (IF Trim(Head(raw)) = <<>> \/ Includes(Head(raw), StrNotDetermined)
        THEN <<>> ELSE <<Head(raw)>>) \o KeptEntries(Tail(raw))

\* C10 as claimed: the output is shorter than the input by exactly the number
\* of entries that are empty or equal to "Not Determined".
C10_DropsOnlyEmptyOrEqualMarker ==
  cPc = "done" => Len(cOut) = Len(cRaw) - CountIn(cRaw, {<<>>, StrNotDetermined})

\* C10 amended: cleanTreeSpecies drops exactly the entries that are empty or
\* white space only or that contain "Not Determined"; every other entry
\* contributes exactly one non-empty label, in input order.
C10_DropsBlankOrContainingMarker ==
  cPc = "done" =>
    /\ Len(cOut) = Len(KeptEntries(cRaw))
    /\ \A k \in DOMAIN cOut :
         /\ cOut[k] # <<>>
         /\ <<cOut[k]>> = cleanTreeSpecies(<<KeptEntries(cRaw)[k]>>)

\* C10 witness: a call whose input holds a blank entry, an entry that contains
\* the marker without being equal to it, and an entry that is kept
C10_Witness ==
  /\ cPc = "done" /\ Len(cRaw) = 3 /\ Len(cOut) = 1
  /\ \E i \in DOMAIN cRaw : cRaw[i] # <<>> /\ Trim(cRaw[i]) = <<>>
  /\ \E i \in DOMAIN cRaw :
       Includes(cRaw[i], StrNotDetermined) /\ cRaw[i] # StrNotDetermined

\* whether a string is a key of speciesMap, and the value recorded for it
IsSpeciesKey(k) == \E i \in DOMAIN speciesMap : speciesMap[i][1] = k
SpeciesValue(k) == speciesMap[CHOOSE i \in DOMAIN speciesMap : speciesMap[i][1] = k][2]

SpacedSpans(t) ==
  {<<i, i>> : i \in {j \in DOMAIN t : t[j] = "/"}}
    \cup {<<i, i + 2>> : i \in {j \in 1..(Len(t) - 2) : SubSeq(t, j, j + 2) = <<" ", "-", " ">>}}
AnySpans(t) == {<<i, i>> : i \in {j \in DOMAIN t : t[j] \in {"-", "/"}}}

\* the parts between separators, as index pairs <<after, before>>, and their text
SegmentsOf(t, spans) ==
  {<<a, b>> \in ({0} \cup {sp[2] : sp \in spans}) \X ({Len(t) + 1} \cup {sp[1] : sp \in spans}) :
     /\ a < b
     /\ \A sp \in spans : ~(sp[1] > a /\ sp[2] < b)}
SegmentText(t, seg) == Trim(SubSeq(t, seg[1] + 1, seg[2] - 1))

\* the parts that are keys of the table, and the leftmost of them
MappedSegments(t, spans) == {seg \in SegmentsOf(t, spans) : IsSpeciesKey(SegmentText(t, seg))}
LeftmostSegment(segs) == CHOOSE seg \in segs : \A other \in segs : seg[1] <= other[1]

\* the label of a string taken as a whole: the value of the first key, in
\* insertion order, longer than 2 characters that it contains, else the string
SubstringKeys(t) ==
  {i \in DOMAIN speciesMap : Len(speciesMap[i][1]) > 2 /\ Includes(t, speciesMap[i][1])}
UnsplitLabel(t) ==
  IF SubstringKeys(t) = {} THEN t
  ELSE speciesMap[CHOOSE i \in SubstringKeys(t) : \A j \in SubstringKeys(t) : i <= j][2]

\* the label of a string that is not itself a key, split at the given separators
CompoundLabel(t, spans) ==
  IF MappedSegments(t, spans) # {}
  THEN SpeciesValue(SegmentText(t, LeftmostSegment(MappedSegments(t, spans))))
  ELSE UnsplitLabel(t)

\* C12 as claimed: an entry that is not itself a key is split only at " - " and
\* "/" and yields the label of its leftmost mapped part; without such a
\* separator it is not split.
C12_SplitsOnlyAtSpacedHyphenOrSlash ==
  cPc = "done" =>
    \A k \in DOMAIN KeptEntries(cRaw) :
      LET t == Trim(KeptEntries(cRaw)[k])
      IN  ~IsSpeciesKey(t) => cOut[k] = CompoundLabel(t, SpacedSpans(t))

\* C12 amended: an entry that is not itself a key is split at every '-' and
\* every '/', with or without white space around it, and yields the label of
\* its leftmost part that is a key; a string holding neither character is not
\* split.
C12_SplitsAtEveryHyphenOrSlash ==
  cPc = "done" =>
    \A k \in DOMAIN KeptEntries(cRaw) :
      LET t == Trim(KeptEntries(cRaw)[k])
      IN  ~IsSpeciesKey(t) =>
            /\ cOut[k] = CompoundLabel(t, AnySpans(t))
            /\ AnySpans(t) = {} => cOut[k] = UnsplitLabel(t)

\* C12 witness: a call on a compound with two mapped parts, on a compound with
\* a bare hyphen and on a string without separator has returned
C12_Witness ==
  /\ cPc = "done"
  /\ cRaw = << StrFExcelsior \o <<" ","/"," ">> \o StrQRobur,
               StrFExcelsior \o <<"-">> \o StrQRobur \o <<" ","w","o","o","d">>,
               StrFExcelsior \o <<" ">> \o StrQRobur >>
  /\ cOut = <<StrFraxinusExcelsior, StrFraxinusExcelsior, StrQuercusRobur>>

RawField(f) ==
  IF f.NS_SPECIES \notin {Undefined, Null} THEN f.NS_SPECIES
  ELSE IF f.NSNW_DESC \notin {Undefined, Null} THEN f.NSNW_DESC
  ELSE <<>>

GenusKeys == {treeColors[i][1] : i \in DOMAIN treeColors}

\* C14: in the collection enrichHabitats returns, cleanedSpecies is the first
\* label of cleanTreeSpecies on the raw field, or "Unknown" when there is none,
\* and never empty; the genus is getGenusFromSpecies of it, and is a treeColors
\* key contained in cleanedSpecies whenever it is not null; a raw value
\* "Not Determined" gives "Unknown" and a null genus.
C14_CleanedSpeciesAndGenus ==
  lResult.state = "resolved" =>
    \A i \in DOMAIN lResult.features :
      LET f == lBody.features[i]
          e == lResult.features[i]
          labels == cleanTreeSpecies(<<RawField(f)>>)
      IN  /\ e.cleanedSpecies = (IF labels = <<>> THEN StrUnknown ELSE labels[1])
          /\ e.cleanedSpecies # <<>>
          /\ e.genus = getGenusFromSpecies(e.cleanedSpecies)
          /\ e.genus # Null => (e.genus \in GenusKeys /\ Includes(e.cleanedSpecies, e.genus))
          /\ RawField(f) = StrNotDetermined => (e.cleanedSpecies = StrUnknown /\ e.genus = Null)

\* C14 witness: a resolved load of a shard with a "Not Determined" feature,
\* enriched to "Unknown" without genus, next to a feature with genus Quercus
C14_Witness ==
  /\ lResult.state = "resolved" /\ Len(lResult.features) = 2
  /\ RawField(lBody.features[1]) = StrNotDetermined
  /\ lResult.features[1].cleanedSpecies = StrUnknown /\ lResult.features[1].genus = Null
  /\ lResult.features[2].cleanedSpecies = StrQuercusRobur /\ lResult.features[2].genus = StrQuercus

\* a geometry all of whose positions are pairs of numbers
RingWellFormed(ring) == ring # <<>> /\ \A j \in DOMAIN ring : WellFormedCoord(ring[j])
GeometryWellFormed(geom) ==
  \/ geom.type = "Point" /\ WellFormedCoord(geom.coordinates)
  \/ /\ geom.type = "Polygon" /\ geom.coordinates # <<>>
     /\ \A r \in DOMAIN geom.coordinates : RingWellFormed(geom.coordinates[r])
  \/ /\ geom.type = "MultiPolygon" /\ geom.coordinates # <<>>
     /\ \A q \in DOMAIN geom.coordinates :
          /\ geom.coordinates[q] # <<>>
          /\ \A r \in DOMAIN geom.coordinates[q] : RingWellFormed(geom.coordinates[q][r])

\* the first (exterior) ring of a geometry; a point is a ring of one position
ExteriorRing(geom) ==
  IF geom.type = "Point" THEN <<geom.coordinates>>
  ELSE IF geom.type = "Polygon" THEN geom.coordinates[1]
  ELSE geom.coordinates[1][1]

IsNumber(q) == q.n > 0

\* sum / n lies between the least and the greatest value of the axis over the ring
WithinAxis(q, ring, axis) ==
  /\ IsNumber(q)
  /\ \E j \in DOMAIN ring : ring[j][axis] * q.n <= q.sum
  /\ \E j \in DOMAIN ring : ring[j][axis] * q.n >= q.sum

\* C15: for a shard of well-formed polygons, multi polygons and points the
\* load resolves and every feature's centroid is a pair of numbers inside the
\* bounding box of the exterior ring of its reprojected geometry.
C15_CentroidInsideExteriorRing ==
  ( /\ lPc = "settled" /\ lBody.isArray
    /\ \A i \in DOMAIN lBody.features : GeometryWellFormed(lBody.features[i].geometry) )
  => /\ lResult.state = "resolved"
     /\ \A i \in DOMAIN lResult.features :
          LET ring == ExteriorRing(lResult.features[i].geometry)
          IN  /\ WithinAxis(lResult.features[i].centroid[1], ring, 1)
              /\ WithinAxis(lResult.features[i].centroid[2], ring, 2)

\* the sum of one axis over the positions 1..k of a ring
RECURSIVE AxisTotal(_, _, _)
AxisTotal(ring, axis, k) == IF k = 0 THEN 0 ELSE AxisTotal(ring, axis, k - 1) + ring[k][axis]

HasMalformedPosition(geom) ==
  \/ geom.type = "Polygon" /\
       \E r \in DOMAIN geom.coordinates : \E j \in DOMAIN geom.coordinates[r] :
          ~WellFormedCoord(geom.coordinates[r][j])
  \/ geom.type = "MultiPolygon" /\
       \E q \in DOMAIN geom.coordinates : \E r \in DOMAIN geom.coordinates[q] :
          \E j \in DOMAIN geom.coordinates[q][r] : ~WellFormedCoord(geom.coordinates[q][r][j])

\* what one position becomes: transformed, or itself when the transform throws
ExpectedPosition(c) == IF Len(c) >= 2 THEN Proj4(c) ELSE c

SameShapeConverted(before, after) ==
  /\ after.type = before.type
  /\ before.type = "Polygon" =>
       /\ Len(after.coordinates) = Len(before.coordinates)
       /\ \A r \in DOMAIN before.coordinates :
            /\ Len(after.coordinates[r]) = Len(before.coordinates[r])
            /\ \A j \in DOMAIN before.coordinates[r] :
                 after.coordinates[r][j] = ExpectedPosition(before.coordinates[r][j])
  /\ before.type = "MultiPolygon" =>
       /\ Len(after.coordinates) = Len(before.coordinates)
       /\ \A q \in DOMAIN before.coordinates :
            /\ Len(after.coordinates[q]) = Len(before.coordinates[q])
            /\ \A r \in DOMAIN before.coordinates[q] :
                 /\ Len(after.coordinates[q][r]) = Len(before.coordinates[q][r])
                 /\ \A j \in DOMAIN before.coordinates[q][r] :
                      after.coordinates[q][r][j] = ExpectedPosition(before.coordinates[q][r][j])

\* C17: when the transform throws for a position of a polygon, the load still
\* resolves with every feature; the position is kept as it was, every other
\* position is transformed, and each geometry keeps its ring count and the
\* point count of each ring.
C17_FailedTransformKeepsPosition ==
  ( /\ lPc = "settled" /\ lBody.isArray
    /\ \A i \in DOMAIN lBody.features :
          /\ lBody.features[i].geometry.type \in {"Polygon", "MultiPolygon"}
          /\ lBody.features[i].geometry.coordinates # <<>>
    /\ \E i \in DOMAIN lBody.features : HasMalformedPosition(lBody.features[i].geometry) )
  => /\ lResult.state = "resolved"
     /\ Len(lResult.features) = Len(lBody.features)
     /\ \A i \in DOMAIN lBody.features :
          SameShapeConverted(lBody.features[i].geometry, lResult.features[i].geometry)

\* C17 witness: a resolved load of a shard holding the polygon with the
\* malformed position next to a well-formed polygon
C17_Witness ==
  /\ lResult.state = "resolved" /\ Len(lResult.features) = 2
  /\ HasMalformedPosition(lBody.features[1].geometry)
  /\ lResult.features[1].geometry.coordinates[1][2] = <<200020>>
  /\ lResult.features[1].geometry.coordinates[1][1] = <<10, 10>>
  /\ lBody.features[2].geometry = GPolygon(<<Square>>)

\* the positions of the treeColors entries whose genus occurs in a label
GenusHits(label) == {i \in DOMAIN treeColors : Includes(label, treeColors[i][1])}
FirstHit(label) == CHOOSE i \in GenusHits(label) : \A j \in GenusHits(label) : i <= j

\* C18: getGenusFromSpecies returns null for the empty label, for "Unknown" and
\* for a label holding no treeColors key, and otherwise the first key in the
\* declared order of the table that occurs in the label.
C18_FirstGenusInDeclaredOrder ==
  sPc \in {"color", "shade", "done"} =>
    /\ (sSpecies = <<>> \/ sSpecies = StrUnknown \/ GenusHits(sSpecies) = {}) => sGenus = Null
    /\ (sSpecies # <<>> /\ sSpecies # StrUnknown /\ GenusHits(sSpecies) # {}) =>
         sGenus = treeColors[FirstHit(sSpecies)][1]

\* C18 witness: the genus of "Fraxinus Quercus", which holds both keys, is the
\* first key of the table
C18_Witness ==
  /\ sPc = "done"
  /\ sSpecies = StrFraxinus \o <<" ">> \o StrQuercus
  /\ sGenus = treeColors[1][1]

\* the colour the table records for a genus
ColourOfGenus(genus) == treeColors[CHOOSE i \in DOMAIN treeColors : treeColors[i][1] = genus][2]

\* C19: getColorForSpecies gives the treeColors colour of the genus that
\* getGenusFromSpecies gives for the same label, and the neutral grey when that
\* genus is null; the empty label and "Unknown" give grey and a null genus.
C19_ColourFollowsGenus ==
  sPc \in {"shade", "done"} =>
    /\ sGenus # Null => sColor = ColourOfGenus(sGenus)
    /\ sGenus = Null => sColor = Grey
    /\ sSpecies \in {<<>>, StrUnknown} => (sColor = Grey /\ sGenus = Null)

\* C19 witness: a label holding both genera has the colour of its genus
C19_Witness ==
  /\ sPc = "done"
  /\ sSpecies = StrFraxinus \o <<" ">> \o StrQuercus
  /\ sGenus = StrQuercus /\ sColor = ColourOfGenus(StrQuercus)

ShadeKeys == {darkerShadeColourMap[i][1] : i \in DOMAIN darkerShadeColourMap}

\* C20: getDarkerShade returns the value the shade table records for a colour
\* that is one of its keys and "#333333" for every other colour string.
C20_ShadeOrDarkGrey ==
  sPc = "done" =>
    /\ sShadeOf \notin ShadeKeys => sShade = DarkGrey
    /\ sShadeOf \in ShadeKeys =>
         \E i \in DOMAIN darkerShadeColourMap :
            darkerShadeColourMap[i][1] = sShadeOf /\ sShade = darkerShadeColourMap[i][2]

\* C20 witness: a colour outside the table has been given the dark grey
C20_Witness ==
  /\ sPc = "done"
  /\ sShadeOf = "#does-not-exist"
  /\ sShade = DarkGrey

\* C21: cleanTreeSpecies never throws, whatever list it is handed: absent,
\* empty, or holding empty strings, absent values and entries that are no
\* strings; it always returns a list of labels.
C21_CleanTreeSpeciesTotal ==
  /\ cPc # "thrown"
  /\ cPc = "done" => \A k \in DOMAIN cOut : IsString(cOut[k]) /\ cOut[k] # <<>>

IndexLoadFailed == ~isLoadingIndex /\ habitatIndex = <<>>

\* C22: the control panel is disabled while loadIndex has not settled; once it
\* has settled with an index and no county load is in flight the panel is
\* enabled; once it has settled without an index the panel is disabled and
\* no later step changes that.
C22_DisabledUntilIndexSettled ==
  /\ [](isLoadingIndex => panelDisabled)
  /\ [](~isLoadingIndex /\ habitatIndex # <<>> /\ inflight = {} => ~panelDisabled)
  /\ [](IndexLoadFailed => panelDisabled)
  /\ [][IndexLoadFailed => IndexLoadFailed']_vars

\* C22 witness: the index is loaded, a county load has been started from the
\* enabled panel and has settled, and the panel is enabled again
C22_Witness ==
  /\ ~isLoadingIndex /\ habitatIndex # <<>>
  /\ lastSettled # <<>> /\ inflight = {}
  /\ ~panelDisabled

\* the applications of styles the three cycles consist of: the flash style at
\* the start of each cycle, the captured style 250 ms later, the next cycle
\* 200 ms after that
ThreeCycles ==
  <<[at |-> 0, style |-> "flash"], [at |-> 250, style |-> "original"],
    [at |-> 450, style |-> "flash"], [at |-> 700, style |-> "original"],
    [at |-> 900, style |-> "flash"], [at |-> 1150, style |-> "original"]>>

CyclesEnd == 3 * (250 + 200)

FlashShown(layer) ==
  \A k \in DOMAIN FlashStyle : layerStyle[layer][k] = FlashStyle[k]

FlashRunDone == flashPc = "idle" /\ flashLog # <<>>

ListenerRegistered == "closeMenu" \in clickListeners

\* C24: after any sequence of handleContextMenu, closeMenu, document clicks
\* and unmount, the document holds the click listener exactly when the
\* mounted hook has a menu position; a document click while the menu is open
\* clears the position.
C24_ListenerIffMenuOpen ==
  /\ [](ListenerRegistered <=> (mounted /\ menuPosition # NoMenu))
  /\ [][DocumentClick /\ mounted /\ menuPosition # NoMenu => menuPosition' = NoMenu]_vars

\* C24 witness: the menu was opened and the component then unmounted, which
\* removed the listener
C24_Witness ==
  /\ ~mounted /\ menuPosition # NoMenu /\ ~ListenerRegistered

\* C25: when the panel becomes disabled while the species dropdown is open the
\* dropdown is closed, and once the effects have run the dropdown is never
\* open on a disabled panel.
C25_DisabledPanelClosesDropdown ==
  /\ [](~(speciesDropdownOpen /\ panelDisabled))
  /\ [][speciesDropdownOpen /\ panelDisabled' => ~speciesDropdownOpen']_vars

\* C25 witness: the dropdown was open when a county load started, and the
\* effect has closed it
C25_Witness ==
  /\ closedByEffect /\ isLoadingCounty /\ panelDisabled /\ ~speciesDropdownOpen

\* C26: once no county load is in flight, habitats is the collection loaded for
\* the selected county, or null when no county is selected or the load failed.
C26_SettledHabitatsMatchSelection ==
  inflight = {} =>
    /\ selectedCounty = NoCounty => habitats = NoHabitats
    /\ selectedCounty # NoCounty /\ habitats # NoHabitats =>
         habitats = ShardCollection(selectedCounty)

FeaturesShown == IF filteredHabitats = NoHabitats THEN <<>> ELSE filteredHabitats[1].features

\* C27: every feature of filteredHabitats has the selected county as its COUNTY,
\* or in its COUNTY array, unless "All" is selected, and filteredHabitats has
\* no feature while no county is selected, whatever collection habitats holds.
C27_ShownFeaturesOfSelectedCounty ==
  /\ selectedCounty = NoCounty => FeaturesShown = <<>>
  /\ selectedCounty # StrAll =>
       \A i \in DOMAIN FeaturesShown :
          LET county == FeaturesShown[i].COUNTY
          IN IF county.t = "arr" THEN selectedCounty \in Range(county.items)
             ELSE county.v = selectedCounty

\* C27 witness: a stale result holds another county's shard, and of its
\* features only the site lying in both counties is shown
C27_Witness ==
  /\ habitats # NoHabitats /\ selectedCounty # NoCounty
  /\ habitats # ShardCollection(selectedCounty)
  /\ Len(FeaturesShown) = 1 /\ FeaturesShown[1].COUNTY.t = "arr"

\* C28: isLoadingCounty is true in every state in which a started county load
\* has not settled, and false once no load is in flight.
C28_LoadingWhileInFlight == isLoadingCounty <=> inflight # {}

\* C29: selectedSpecies has no duplicates, holds only genera of
\* availableSpecies, and is non-empty whenever availableSpecies is non-empty.
C29_SelectionWithinAvailable ==
  /\ \A i, j \in DOMAIN selectedSpecies : selectedSpecies[i] = selectedSpecies[j] => i = j
  /\ Range(selectedSpecies) \subseteq Range(availableSpecies)
  /\ availableSpecies # <<>> => selectedSpecies # <<>>

\* C30: for every county the written index lists, the key the loader looks up,
\* titleCaseCounty of the lower-cased name, is the name itself, so the index
\* has a shard under it.
C30_ListedCountyRoundTrips ==
  pPc = "done" =>
    \A i \in DOMAIN pIndex[1].counties :
       LET c == pIndex[1].counties[i]
       IN /\ titleCaseCounty(ToLowerCase(c)) = c
          /\ FilesGet(pIndex[1].files, titleCaseCounty(ToLowerCase(c))) # Undefined

====
